---- MODULE Spec2Model ----
(***************************************************************************)
(* Model of the booking page (frontend/app/page.tsx) and of its API client *)
(* (frontend/lib/api.ts).                                                  *)
(*                                                                         *)
(* Time.  A Date is its epoch value, counted in half hours from            *)
(* 2024-04-06T00:00Z.  The zones are UTC, Asia/Shanghai (UTC+8) and         *)
(* Australia/Sydney, which leaves daylight-saving time                     *)
(* at 2024-04-06T16:00Z (UTC+11 before, UTC+10 from then on).  The system  *)
(* zone of the browser, sysTz, is one of them or is not known; Date fields, *)
(* format() and isSameDay() read a Date in the system zone.                *)
(* A calendar date 'yyyy-MM-dd' is the tuple <<year, month, day>>.         *)
(***************************************************************************)
EXTENDS Integers, Sequences, FiniteSets, TLC

VARIABLES
    sysTz,               \* the zone Intl.DateTimeFormat() resolves to
    fetchState,          \* position of the mount effect / fetchInitialSlots
    currentSlots,        \* useState<Slot[]>([])
    loading,             \* useState(true)
    error,               \* useState<string | null>(null)
    selectedDate,        \* useState<Date | undefined>(undefined)
    isBookingDialogOpen, \* useState(false)
    selectedSlot,        \* useState<Slot | null>(null)
    bookedByName,        \* useState('')
    bookedByEmail,       \* useState('')
    description,         \* useState('')
    isBookingLoading,    \* useState(false)
    userTimezone,        \* useState<string>('')
    inflight,            \* bookSlot calls awaiting their response
    validationError,     \* the browser refused the last submit (required field)
    lastToast            \* the last notification given to sonner

vars == <<sysTz, fetchState, currentSlots, loading, error, selectedDate,
          isBookingDialogOpen, selectedSlot, bookedByName, bookedByEmail,
          description, isBookingLoading, userTimezone, inflight,
          validationError, lastToast>>

(***************************************************************************)
(* Bounds and sample data                                                  *)
(***************************************************************************)
\* The server's list is drawn from the first NumSlots slots of the catalogue.
NumSlots == 2

\* In SpecView the list is drawn from the first ViewSlots slots.
ViewSlots == 4

HalfHoursPerDay == 24 * 2

\* The slots the server may hold, each with its own id: id and datetime_utc (day of April 2024,
\* half hour of the day, read as UTC).
\*   a 2024-04-06T16:00Z   b 2024-04-06T15:30Z   c 2024-04-07T02:00Z
\*   d 2024-04-06T01:00Z   e 2024-04-06T15:00Z
Catalogue ==
    << [id |-> "a", datetime_utc |-> [day |-> 6, hh |-> 32]],
       [id |-> "b", datetime_utc |-> [day |-> 6, hh |-> 31]],
       [id |-> "c", datetime_utc |-> [day |-> 7, hh |-> 4]],
       [id |-> "d", datetime_utc |-> [day |-> 6, hh |-> 2]],
       [id |-> "e", datetime_utc |-> [day |-> 6, hh |-> 30]] >>

Names == {"", "Ann"}
Emails == {"", "ann@x.org"}
Descriptions == {"", "intro call"}

\* Optional values: <<>> is undefined / null, <<v>> holds v.  A message is the
\* sequence of the pieces its template literal joins.
NoDate == <<>>
NoSlot == <<>>
NoError == <<>>
NoToast == [kind |-> "none", text |-> <<>>]
NoDetail == "undefined"

(***************************************************************************)
(* Zones and Dates                                                         *)
(***************************************************************************)
commonTimezones == {"Asia/Shanghai", "Australia/Sydney", "UTC"}

\* The identifiers Intl and date-fns-tz recognize, as far as the model goes.
IanaZones == commonTimezones

\* What Intl.DateTimeFormat().resolvedOptions().timeZone can give: a zone, or
\* "Etc/Unknown" when the engine cannot tell the zone of the system; that
\* identifier is not accepted as a timeZone.
DetectableZones == IanaZones \cup {"Etc/Unknown"}

\* End of daylight-saving time in Australia/Sydney, 2024-04-06T16:00Z.
SydneyDstEnd == 16 * 2

\* Offset of zone tz from UTC at epoch value t, in half hours.
tzOffset(tz, t) ==
    CASE tz = "UTC" -> 0
      [] tz = "Asia/Shanghai" -> 16
      [] tz = "Australia/Sydney" -> IF t < SydneyDstEnd THEN 22 ELSE 20

\* new Date(slot.datetime_utc): the epoch value of an ISO string in UTC.
NewDate(iso) == (iso.day - 6) * HalfHoursPerDay + iso.hh

\* The fields (year .. minutes, as one count of half hours) a Date shows in
\* the system zone: getFullYear(), getHours(), ...
\* Local time of the engine: the system zone, UTC when it is not known.
SystemOffset(t) == IF sysTz \in IanaZones THEN tzOffset(sysTz, t) ELSE 0

LocalFields(t) == t + SystemOffset(t)

\* The Date whose fields in the system zone are w (setFullYear / setHours).
\* A wall-clock time that occurs twice is read with the earlier offset.
DateFromLocalFields(w) ==
    LET cands == {t \in {w - o : o \in {0, 16, 20, 22}} :
                      t + SystemOffset(t) = w}
    IN  CHOOSE t \in cands : \A u \in cands : t <= u

\* Mutant: the instant is used as it is, without projecting it into the zone.
toZonedTime_unprojected(t, tz) == t

\* date-fns-tz toZonedTime: a Date whose system-zone fields are the wall clock
\* of the instant in zone tz.
toZonedTime(t, tz) == DateFromLocalFields(t + tzOffset(tz, t))

\* date-fns format(date, 'yyyy-MM-dd'): the calendar date of the Date's
\* fields in the system zone.
formatYMD(t) == <<2024, 4, 6 + (LocalFields(t) \div HalfHoursPerDay)>>

\* date-fns isSameDay: equal start of day in the system zone.
isSameDay(a, b) ==
    (LocalFields(a) \div HalfHoursPerDay) = (LocalFields(b) \div HalfHoursPerDay)

\* The Date the calendar hands to onSelect for a day cell: midnight of that
\* day in the system zone.
CalendarDay(k) == DateFromLocalFields(k * HalfHoursPerDay)

\* Day cells of the calendar that the sample data can touch.
CalendarDays == {CalendarDay(k) : k \in 0..2}

Range(s) == {s[i] : i \in 1..Len(s)}

(***************************************************************************)
(* Derived values (useMemo)                                                *)
(***************************************************************************)
\* Array.prototype.sort with the comparator of filteredSlots: the sort is
\* stable, and orders by toZonedTime(new Date(s.datetime_utc), tz).getTime().
zonedTime(slot, tz) == toZonedTime(NewDate(slot.datetime_utc), tz)

RECURSIVE InsertSorted(_, _, _)
InsertSorted(s, x, tz) ==
    IF s = <<>> THEN <<x>>
    ELSE IF zonedTime(Head(s), tz) - zonedTime(x, tz) <= 0
         THEN <<Head(s)>> \o InsertSorted(Tail(s), x, tz)
         ELSE <<x>> \o s

RECURSIVE SortSlots(_, _)
SortSlots(s, tz) ==
    IF s = <<>> THEN <<>>
    ELSE InsertSorted(SortSlots(SubSeq(s, 1, Len(s) - 1), tz), s[Len(s)], tz)

\* Mutant: the dates are collected from every slot, booked or not.
DatesWithAvailableSlots_ignoresBooked(slots, tz) ==
    IF tz = "" THEN {}
    ELSE {formatYMD(toZonedTime(NewDate(slots[i].datetime_utc), tz)) :
              i \in 1..Len(slots)}

\* The dates with at least one slot that is not booked, in zone tz.
DatesWithAvailableSlots(slots, tz) ==
    IF tz = "" THEN {}
    ELSE {formatYMD(toZonedTime(NewDate(slots[i].datetime_utc), tz)) :
              i \in {j \in 1..Len(slots) : ~slots[j].is_booked}}

datesWithAvailableSlots == DatesWithAvailableSlots(currentSlots, userTimezone)

\* Mutant: the filter forgets && !slot.is_booked.
SlotMatches_ignoresBooked(slot, date, tz) ==
    isSameDay(toZonedTime(NewDate(slot.datetime_utc), tz), date[1])

\* The predicate of currentSlots.filter(...) in filteredSlots.
SlotMatches(slot, date, tz) ==
    /\ isSameDay(toZonedTime(NewDate(slot.datetime_utc), tz), date[1])
    /\ ~slot.is_booked

FilteredSlots(slots, date, tz) ==
    IF date = NoDate \/ tz = "" \/ tz \notin IanaZones THEN <<>>
    ELSE LET Keep(slot) == SlotMatches(slot, date, tz)
         IN  SortSlots(SelectSeq(slots, Keep), tz)

filteredSlots == FilteredSlots(currentSlots, selectedDate, userTimezone)

\* With a zone that is not recognized toZonedTime gives an Invalid Date:
\* format() throws on it (datesWithAvailableSlots, for the first slot that is
\* not booked) and the render of the page fails; isSameDay is false on it.
RenderThrows ==
    /\ userTimezone \notin IanaZones \cup {""}
    /\ \E i \in 1..Len(currentSlots) : ~currentSlots[i].is_booked

\* The main content (calendar, zone select, slot buttons) replaces the
\* skeleton unless loading && !error; nothing is shown once a render failed.
MainContentShown == ~(loading /\ error = NoError) /\ ~RenderThrows

(***************************************************************************)
(* The API client                                                          *)
(***************************************************************************)
\* The lists getSlots can resolve to: some of the catalogue's first NumSlots
\* slots, in catalogue order, each booked or not.
RECURSIVE SlotLists(_)
SlotLists(n) ==
    IF n = 0 THEN {<<>>}
    ELSE LET shorter == SlotLists(n - 1)
         IN  shorter \cup
             {l \o <<[id |-> Catalogue[n].id,
                      datetime_utc |-> Catalogue[n].datetime_utc,
                      is_booked |-> b]>> : l \in shorter, b \in BOOLEAN}

\* Ways getSlots rejects: fetch itself fails, or the response is not ok.
getSlotsErrors ==
    {<<"Failed to fetch">>, <<"Error fetching slots: ", "Internal Server Error">>}

\* Ways a bookSlot call fails.  kind "network": fetch rejects.  kind "http":
\* response.ok is false and the body is JSON with the given detail (or none).
\* kind "badbody": response.ok is false and response.json() rejects.
BookFailures ==
    {[kind |-> "network", statusText |-> "", detail |-> NoDetail],
     [kind |-> "badbody", statusText |-> "Bad Gateway", detail |-> NoDetail],
     [kind |-> "http", statusText |-> "Conflict", detail |-> "Already booked"],
     [kind |-> "http", statusText |-> "Conflict", detail |-> ""],
     [kind |-> "http", statusText |-> "Conflict", detail |-> NoDetail]}

\* Mutant: the message leaves the detail of the body out.
bookSlotErrorMessage_noDetail(f) ==
    CASE f.kind = "network" -> <<"Failed to fetch">>
      [] f.kind = "badbody" -> <<"Unexpected token < in JSON at position 0">>
      [] f.kind = "http" -> <<"Error booking slot: ", f.statusText>>

\* err.message of the Error a failed bookSlot call rejects with.
bookSlotErrorMessage(f) ==
    CASE f.kind = "network" -> <<"Failed to fetch">>
      [] f.kind = "badbody" -> <<"Unexpected token < in JSON at position 0">>
      [] f.kind = "http" ->
           <<"Error booking slot: ", f.statusText, " - ",
             IF f.detail = NoDetail \/ f.detail = "" THEN "Unknown error"
             ELSE f.detail>>

\* The Slot a successful bookSlot call resolves to.
BookResponses(slotId) ==
    {[id |-> slotId, datetime_utc |-> Catalogue[1].datetime_utc, is_booked |-> b] :
        b \in BOOLEAN}

(***************************************************************************)
(* Initial state: the first render, before the mount effect has run        *)
(***************************************************************************)
Init ==
    /\ sysTz \in DetectableZones
    /\ fetchState = "unmounted"
    /\ currentSlots = <<>>
    /\ loading = TRUE
    /\ error = NoError
    /\ selectedDate = NoDate
    /\ isBookingDialogOpen = FALSE
    /\ selectedSlot = NoSlot
    /\ bookedByName = ""
    /\ bookedByEmail = ""
    /\ description = ""
    /\ isBookingLoading = FALSE
    /\ userTimezone = ""
    /\ inflight = {}
    /\ validationError = FALSE
    /\ lastToast = NoToast

(***************************************************************************)
(* The mount effect and fetchInitialSlots                                  *)
(***************************************************************************)
\* useEffect(..., []): the detected zone becomes the selected one and
\* getSlots is called.
Mount ==
    /\ fetchState = "unmounted"
    /\ userTimezone' = sysTz
    /\ loading' = TRUE
    /\ fetchState' = "pending"
    /\ UNCHANGED <<sysTz, currentSlots, error, selectedDate, isBookingDialogOpen,
                   selectedSlot, bookedByName, bookedByEmail, description,
                   isBookingLoading, inflight, validationError, lastToast>>

\* getSlots resolves.
FetchOk ==
    /\ fetchState = "pending"
    /\ \E fetchedSlots \in SlotLists(NumSlots) : currentSlots' = fetchedSlots
    /\ error' = NoError
    /\ loading' = FALSE
    /\ fetchState' = "done"
    /\ UNCHANGED <<sysTz, selectedDate, isBookingDialogOpen, selectedSlot,
                   bookedByName, bookedByEmail, description, isBookingLoading,
                   userTimezone, inflight, validationError, lastToast>>

\* Mutant: a failed fetch is tried again.
FetchFail_retries ==
    /\ fetchState = "pending"
    /\ \E errorMessage \in getSlotsErrors :
          /\ error' = errorMessage
          /\ lastToast' = [kind |-> "error",
                           text |-> <<"Failed to load slots: ">> \o errorMessage]
    /\ loading' = TRUE
    /\ fetchState' = "pending"
    /\ UNCHANGED <<sysTz, currentSlots, selectedDate, isBookingDialogOpen,
                   selectedSlot, bookedByName, bookedByEmail, description,
                   isBookingLoading, userTimezone, inflight, validationError>>

\* getSlots rejects.
FetchFail ==
    /\ fetchState = "pending"
    /\ \E errorMessage \in getSlotsErrors :
          /\ error' = errorMessage
          /\ lastToast' = [kind |-> "error",
                           text |-> <<"Failed to load slots: ">> \o errorMessage]
    /\ loading' = FALSE
    /\ fetchState' = "done"
    /\ UNCHANGED <<sysTz, currentSlots, selectedDate, isBookingDialogOpen,
                   selectedSlot, bookedByName, bookedByEmail, description,
                   isBookingLoading, userTimezone, inflight, validationError>>

(***************************************************************************)
(* User actions on the main content                                        *)
(***************************************************************************)
\* Mutant: the zone select is disabled while a call is pending.
SetUserTimezone_blockedWhilePending(tz) ==
    /\ MainContentShown
    /\ ~isBookingLoading
    /\ tz \in commonTimezones
    /\ tz # userTimezone
    /\ userTimezone' = tz
    /\ UNCHANGED <<sysTz, fetchState, currentSlots, loading, error, selectedDate,
                   isBookingDialogOpen, selectedSlot, bookedByName, bookedByEmail,
                   description, isBookingLoading, inflight, validationError,
                   lastToast>>

\* <Select value={userTimezone} onValueChange={setUserTimezone}>
SetUserTimezone(tz) ==
    /\ MainContentShown
    /\ tz \in commonTimezones
    /\ tz # userTimezone
    /\ userTimezone' = tz
    /\ UNCHANGED <<sysTz, fetchState, currentSlots, loading, error, selectedDate,
                   isBookingDialogOpen, selectedSlot, bookedByName, bookedByEmail,
                   description, isBookingLoading, inflight, validationError,
                   lastToast>>

\* The calendar's disabled prop for a day cell.
CalendarDisabled(date) == formatYMD(date) \notin datesWithAvailableSlots

\* <Calendar mode="single" onSelect={setSelectedDate}>: a click on an enabled
\* day selects it; a click on the selected day clears the selection.
SelectDate(date) ==
    /\ MainContentShown
    /\ ~CalendarDisabled(date)
    /\ selectedDate' = IF selectedDate = <<date>> THEN NoDate ELSE <<date>>
    /\ UNCHANGED <<sysTz, fetchState, currentSlots, loading, error,
                   isBookingDialogOpen, selectedSlot, bookedByName, bookedByEmail,
                   description, isBookingLoading, userTimezone, inflight,
                   validationError, lastToast>>

\* Mutant: the form keeps what the previous attempt left in it.
handleOpenBookingDialog_keepsFields(slot) ==
    /\ MainContentShown
    /\ slot \in Range(filteredSlots)
    /\ ~(slot.is_booked \/ isBookingLoading)
    /\ selectedSlot' = <<slot>>
    /\ isBookingDialogOpen' = TRUE
    /\ validationError' = FALSE
    /\ UNCHANGED <<sysTz, fetchState, currentSlots, loading, error, selectedDate,
                   bookedByName, bookedByEmail, description,
                   isBookingLoading, userTimezone, inflight, lastToast>>

\* Mutant: the slot buttons are disabled by slot.is_booked alone.
handleOpenBookingDialog_whilePending(slot) ==
    /\ MainContentShown
    /\ slot \in Range(filteredSlots)
    /\ ~slot.is_booked
    /\ selectedSlot' = <<slot>>
    /\ bookedByName' = ""
    /\ bookedByEmail' = ""
    /\ description' = ""
    /\ isBookingDialogOpen' = TRUE
    /\ validationError' = FALSE
    /\ UNCHANGED <<sysTz, fetchState, currentSlots, loading, error, selectedDate,
                   isBookingLoading, userTimezone, inflight, lastToast>>

\* handleOpenBookingDialog(slot), from the button of a slot of filteredSlots;
\* the button is disabled when slot.is_booked || isBookingLoading.
handleOpenBookingDialog(slot) ==
    /\ MainContentShown
    /\ slot \in Range(filteredSlots)
    /\ ~(slot.is_booked \/ isBookingLoading)
    /\ selectedSlot' = <<slot>>
    /\ bookedByName' = ""
    /\ bookedByEmail' = ""
    /\ description' = ""
    /\ isBookingDialogOpen' = TRUE
    /\ validationError' = FALSE
    /\ UNCHANGED <<sysTz, fetchState, currentSlots, loading, error, selectedDate,
                   isBookingLoading, userTimezone, inflight, lastToast>>

(***************************************************************************)
(* The booking dialog                                                      *)
(***************************************************************************)
\* The dialog is rendered when selectedSlot is set and open.
DialogShown == selectedSlot # NoSlot /\ isBookingDialogOpen

\* onOpenChange(false): Escape, the close button, a click outside.  The
\* dialog can be closed while a call is pending.  The model does not rely on
\* the dialog being modal: the main content stays usable while it is open.
CloseDialog ==
    /\ DialogShown
    /\ isBookingDialogOpen' = FALSE
    /\ validationError' = FALSE
    /\ UNCHANGED <<sysTz, fetchState, currentSlots, loading, error, selectedDate,
                   selectedSlot, bookedByName, bookedByEmail, description,
                   isBookingLoading, userTimezone, inflight, lastToast>>

\* onChange of the name input.
SetBookedByName(name) ==
    /\ DialogShown
    /\ name # bookedByName
    /\ bookedByName' = name
    /\ validationError' = FALSE
    /\ UNCHANGED <<sysTz, fetchState, currentSlots, loading, error, selectedDate,
                   isBookingDialogOpen, selectedSlot, bookedByEmail, description,
                   isBookingLoading, userTimezone, inflight, lastToast>>

\* onChange of the email input.
SetBookedByEmail(email) ==
    /\ DialogShown
    /\ email # bookedByEmail
    /\ bookedByEmail' = email
    /\ validationError' = FALSE
    /\ UNCHANGED <<sysTz, fetchState, currentSlots, loading, error, selectedDate,
                   isBookingDialogOpen, selectedSlot, bookedByName, description,
                   isBookingLoading, userTimezone, inflight, lastToast>>

\* onChange of the description textarea.
SetDescription(desc) ==
    /\ DialogShown
    /\ desc # description
    /\ description' = desc
    /\ validationError' = FALSE
    /\ UNCHANGED <<sysTz, fetchState, currentSlots, loading, error, selectedDate,
                   isBookingDialogOpen, selectedSlot, bookedByName, bookedByEmail,
                   isBookingLoading, userTimezone, inflight, lastToast>>

\* Mutant: the submit button is not disabled while a call is pending.
SubmitEnabled_whilePending == DialogShown

\* <Button type="submit" disabled={isBookingLoading}> of the dialog's form.
SubmitEnabled == DialogShown /\ ~isBookingLoading

\* Mutant: the email input is not required.
FormValid_nameOnly == bookedByName # ""

\* Mutant: the description textarea is required too.
FormValid_descriptionRequired ==
    bookedByName # "" /\ bookedByEmail # "" /\ description # ""

\* Constraint validation of the form: the inputs name and email are
\* required (email of type email); the description textarea is not.
FormValid == bookedByName # "" /\ bookedByEmail # ""

\* The request handleBookSubmit sends, with what its closure holds.
BookingCall ==
    [slotId |-> selectedSlot[1].id,
     bookingDetails |-> [booked_by_name |-> bookedByName,
                         booked_by_email |-> bookedByEmail,
                         description |-> description],
     currentSlots |-> currentSlots]

\* The submit button, disabled while isBookingLoading.  An invalid form is
\* refused by the browser and no submit event reaches handleBookSubmit;
\* otherwise handleBookSubmit runs up to its await of bookSlot.
SubmitForm ==
    /\ SubmitEnabled
    /\ IF FormValid
       THEN /\ isBookingLoading' = TRUE
            /\ inflight' = inflight \cup {BookingCall}
            /\ validationError' = FALSE
       ELSE /\ validationError' = TRUE
            /\ UNCHANGED <<isBookingLoading, inflight>>
    /\ UNCHANGED <<sysTz, fetchState, currentSlots, loading, error, selectedDate,
                   isBookingDialogOpen, selectedSlot, bookedByName, bookedByEmail,
                   description, userTimezone, lastToast>>

\* Mutant: every slot is marked booked.
MarkBooked_all(prevSlots, slotId) ==
    [i \in 1..Len(prevSlots) |-> [prevSlots[i] EXCEPT !.is_booked = TRUE]]

\* Mutant: is_booked is set to the result of the id comparison.
MarkBooked_onlyThis(prevSlots, slotId) ==
    [i \in 1..Len(prevSlots) |->
        [prevSlots[i] EXCEPT !.is_booked = (prevSlots[i].id = slotId)]]

\* prevSlots.map(s => s.id === selectedSlot.id ? {...s, is_booked: true} : s)
MarkBooked(prevSlots, slotId) ==
    [i \in 1..Len(prevSlots) |->
        IF prevSlots[i].id = slotId
        THEN [prevSlots[i] EXCEPT !.is_booked = TRUE]
        ELSE prevSlots[i]]

\* Mutant: finally does not lower isBookingLoading on the success path.
BookOk_keepsLoading(call, returned) ==
    /\ call \in inflight
    /\ returned \in BookResponses(call.slotId)
    /\ inflight' = inflight \ {call}
    /\ currentSlots' = MarkBooked(currentSlots, call.slotId)
    /\ lastToast' = [kind |-> "success", text |-> <<"Slot booked successfully!">>]
    /\ isBookingDialogOpen' = FALSE
    /\ validationError' = FALSE
    /\ UNCHANGED <<sysTz, fetchState, loading, error, selectedDate, selectedSlot,
                   bookedByName, bookedByEmail, description, userTimezone,
                   isBookingLoading>>

\* Mutant: the success path does not close the dialog.
BookOk_keepsDialogOpen(call, returned) ==
    /\ call \in inflight
    /\ returned \in BookResponses(call.slotId)
    /\ inflight' = inflight \ {call}
    /\ currentSlots' = MarkBooked(currentSlots, call.slotId)
    /\ lastToast' = [kind |-> "success", text |-> <<"Slot booked successfully!">>]
    /\ isBookingLoading' = FALSE
    /\ validationError' = FALSE
    /\ UNCHANGED <<sysTz, fetchState, loading, error, selectedDate, selectedSlot,
                   isBookingDialogOpen, bookedByName, bookedByEmail, description,
                   userTimezone>>

\* bookSlot resolves (with any Slot): the rest of the try block, and finally.
BookOk(call, returned) ==
    /\ call \in inflight
    /\ returned \in BookResponses(call.slotId)
    /\ inflight' = inflight \ {call}
    /\ currentSlots' = MarkBooked(currentSlots, call.slotId)
    /\ lastToast' = [kind |-> "success", text |-> <<"Slot booked successfully!">>]
    /\ isBookingDialogOpen' = FALSE
    /\ isBookingLoading' = FALSE
    /\ validationError' = FALSE
    /\ UNCHANGED <<sysTz, fetchState, loading, error, selectedDate, selectedSlot,
                   bookedByName, bookedByEmail, description, userTimezone>>

\* Mutant: the catch block closes the dialog, as the success path does.
BookFail_closesDialog(call, failure) ==
    /\ call \in inflight
    /\ failure \in BookFailures
    /\ inflight' = inflight \ {call}
    /\ lastToast' = [kind |-> "error",
                     text |-> <<"Booking failed: ">> \o bookSlotErrorMessage(failure)]
    /\ isBookingDialogOpen' = FALSE
    /\ isBookingLoading' = FALSE
    /\ UNCHANGED <<sysTz, fetchState, currentSlots, loading, error, selectedDate,
                   selectedSlot, bookedByName, bookedByEmail, description,
                   userTimezone, validationError>>

\* bookSlot rejects: the catch block, and finally.
BookFail(call, failure) ==
    /\ call \in inflight
    /\ failure \in BookFailures
    /\ inflight' = inflight \ {call}
    /\ lastToast' = [kind |-> "error",
                     text |-> <<"Booking failed: ">> \o bookSlotErrorMessage(failure)]
    /\ isBookingLoading' = FALSE
    /\ UNCHANGED <<sysTz, fetchState, currentSlots, loading, error, selectedDate,
                   isBookingDialogOpen, selectedSlot, bookedByName, bookedByEmail,
                   description, userTimezone, validationError>>

Next ==
    \/ Mount
    \/ FetchOk
    \/ FetchFail
    \/ \E tz \in commonTimezones : SetUserTimezone(tz)
    \/ \E date \in CalendarDays : SelectDate(date)
    \/ \E slot \in Range(currentSlots) : handleOpenBookingDialog(slot)
    \/ CloseDialog
    \/ \E name \in Names : SetBookedByName(name)
    \/ \E email \in Emails : SetBookedByEmail(email)
    \/ \E desc \in Descriptions : SetDescription(desc)
    \/ SubmitForm
    \/ \E call \in inflight :
          \E returned \in BookResponses(call.slotId) : BookOk(call, returned)
    \/ \E call \in inflight, failure \in BookFailures : BookFail(call, failure)

Spec == Init /\ [][Next]_vars

(***************************************************************************)
(* The page as a view of a loaded list: every state getSlots can leave,    *)
(* with lists of up to ViewSlots slots, and from there the zone select and *)
(* the calendar, the two inputs of the derived values besides the list.    *)
(***************************************************************************)
InitView ==
    /\ sysTz \in commonTimezones
    /\ fetchState = "done"
    /\ currentSlots \in SlotLists(ViewSlots)
    /\ loading = FALSE
    /\ error = NoError
    /\ selectedDate = NoDate
    /\ isBookingDialogOpen = FALSE
    /\ selectedSlot = NoSlot
    /\ bookedByName = ""
    /\ bookedByEmail = ""
    /\ description = ""
    /\ isBookingLoading = FALSE
    /\ userTimezone = sysTz
    /\ inflight = {}
    /\ validationError = FALSE
    /\ lastToast = NoToast

NextView ==
    \/ \E tz \in commonTimezones : SetUserTimezone(tz)
    \/ \E date \in CalendarDays : SelectDate(date)

SpecView == InitView /\ [][NextView]_vars

(***************************************************************************)
(* Reference notions the properties are stated with                        *)
(***************************************************************************)
\* The civil date of a slot's instant in zone tz, by the zone's offset at
\* that instant.
CivilDate(slot, tz) ==
    LET t == NewDate(slot.datetime_utc)
    IN  <<2024, 4, 6 + ((t + tzOffset(tz, t)) \div HalfHoursPerDay)>>

CacheIndices == 1..Len(currentSlots)

Unbooked == {i \in CacheIndices : ~currentSlots[i].is_booked}

\* The cache entries with the id of the slot the dialog is on.
SelectedEntries ==
    {i \in CacheIndices : currentSlots[i].id = selectedSlot[1].id}

(***************************************************************************)
(* C1  datesWithAvailableSlots                                             *)
(***************************************************************************)
\* C1: a civil date is in datesWithAvailableSlots if and only if at least one
\* slot that is not booked projects to it in the selected timezone.
C1_AvailabilityIndex ==
    datesWithAvailableSlots =
        {CivilDate(currentSlots[i], userTimezone) : i \in Unbooked}

\* C1 witness: in a zone other than UTC, an unbooked slot is listed under its
\* zone date, which is not its UTC date, and the date of a booked slot is
\* absent.
C1_Witness ==
    /\ userTimezone \notin {"", "UTC"}
    /\ \E i \in Unbooked :
          /\ CivilDate(currentSlots[i], userTimezone)
                # CivilDate(currentSlots[i], "UTC")
          /\ CivilDate(currentSlots[i], userTimezone) \in datesWithAvailableSlots
          /\ CivilDate(currentSlots[i], "UTC") \notin datesWithAvailableSlots
    /\ \E j \in CacheIndices :
          /\ currentSlots[j].is_booked
          /\ CivilDate(currentSlots[j], userTimezone) \notin datesWithAvailableSlots

(***************************************************************************)
(* C2, C3  filteredSlots                                                   *)
(***************************************************************************)
\* C2: with a date chosen, filteredSlots holds exactly the cache's slots that
\* are not booked and project to the chosen date in the selected timezone,
\* each once.
C2_SlotFilterExact ==
    selectedDate # NoDate =>
        /\ Range(filteredSlots) =
              {currentSlots[i] : i \in
                  {j \in Unbooked : CivilDate(currentSlots[j], userTimezone)
                                        = formatYMD(selectedDate[1])}}
        /\ Cardinality(Range(filteredSlots)) = Len(filteredSlots)

\* C2 witness: the chosen date has a slot in the result while the cache also
\* holds a booked slot of that date and an unbooked slot of another date.
C2_Witness ==
    /\ selectedDate # NoDate
    /\ filteredSlots # <<>>
    /\ \E i \in CacheIndices :
          /\ currentSlots[i].is_booked
          /\ CivilDate(currentSlots[i], userTimezone) = formatYMD(selectedDate[1])
    /\ \E j \in Unbooked :
          CivilDate(currentSlots[j], userTimezone) # formatYMD(selectedDate[1])

\* C3: filteredSlots is in ascending order of the slots' UTC instants.
C3_SortedByInstant ==
    \A i, j \in 1..Len(filteredSlots) :
        i < j => NewDate(filteredSlots[i].datetime_utc)
                    <= NewDate(filteredSlots[j].datetime_utc)

(***************************************************************************)
(* C4, C5  validation of the form                                          *)
(***************************************************************************)
\* C4: a submission with an empty name or an empty email is refused locally:
\* no bookSlot call is issued, the flow does not enter Submitting and the
\* slot cache is unchanged.
C4_EmptyNameOrEmailRefused ==
    [][(SubmitForm /\ (bookedByName = "" \/ bookedByEmail = "")) =>
          /\ validationError'
          /\ inflight' = inflight
          /\ isBookingLoading' = isBookingLoading
          /\ currentSlots' = currentSlots]_vars

\* C4 witness: a submission with an empty name and a filled email was refused.
C4_Witness ==
    /\ validationError
    /\ bookedByName = ""
    /\ bookedByEmail # ""
    /\ inflight = {}

\* C5 as stated: a submission with an empty description is refused locally,
\* no bookSlot call is issued and the flow does not enter Submitting.
C5_EmptyDescriptionRefused ==
    [][(SubmitForm /\ description = "") =>
          /\ inflight' = inflight
          /\ isBookingLoading' = isBookingLoading]_vars

\* C5 amended: a submission with a name, an email and an empty description is
\* not refused: the flow enters Submitting and bookSlot is called for the
\* dialog's slot with the empty description.
C5_EmptyDescriptionSubmitted ==
    [][(SubmitForm /\ description = "" /\ bookedByName # "" /\ bookedByEmail # "") =>
          /\ isBookingLoading'
          /\ ~validationError'
          /\ \E call \in inflight' \ inflight :
                /\ call.slotId = selectedSlot[1].id
                /\ call.bookingDetails.description = ""]_vars

\* C5 witness: a bookSlot call with an empty description is in flight.
C5_Witness ==
    /\ isBookingLoading
    /\ \E call \in inflight : call.bookingDetails.description = ""

(***************************************************************************)
(* C6 .. C8  completion of a bookSlot call                                 *)
(***************************************************************************)
\* C6: when a bookSlot call succeeds, the cache afterwards is the cache before
\* with is_booked = true in the entry of the submitted id: same length and
\* order, same id and datetime_utc everywhere, no other is_booked changed.
C6_SuccessFrame ==
    [][\A call \in inflight :
          (\E returned \in BookResponses(call.slotId) : BookOk(call, returned)) =>
              /\ Len(currentSlots') = Len(currentSlots)
              /\ \E i \in CacheIndices : currentSlots[i].id = call.slotId
              /\ \A i \in CacheIndices :
                    /\ currentSlots'[i].id = currentSlots[i].id
                    /\ currentSlots'[i].datetime_utc = currentSlots[i].datetime_utc
                    /\ DOMAIN currentSlots'[i] = DOMAIN currentSlots[i]
                    /\ currentSlots'[i].is_booked =
                          (currentSlots[i].is_booked
                              \/ currentSlots[i].id = call.slotId)]_vars

\* C6 witness: after a success, the dialog's slot is booked in the cache and
\* another slot of the cache is still unbooked.
C6_Witness ==
    /\ lastToast.kind = "success"
    /\ selectedSlot # NoSlot
    /\ ~selectedSlot[1].is_booked
    /\ SelectedEntries # {}
    /\ \A i \in SelectedEntries : currentSlots[i].is_booked
    /\ Unbooked # {}

\* A message contains the text d.
Contains(text, d) == d = "" \/ d \in Range(text)

\* C7: when a bookSlot call fails, the cache is the one the submission saw,
\* untouched, and the failure message contains the detail of the response
\* body, if it has one.
C7_FailureFrame ==
    [][\A call \in inflight : \A failure \in BookFailures :
          BookFail(call, failure) =>
              /\ currentSlots' = currentSlots
              /\ currentSlots' = call.currentSlots
              /\ lastToast'.kind = "error"
              /\ (failure.kind = "http" /\ failure.detail # NoDetail) =>
                     Contains(lastToast'.text, failure.detail)]_vars

\* C7 witness: a failure with detail "Already booked" has been notified and
\* the cache still shows the dialog's slot unbooked.
C7_Witness ==
    /\ lastToast.kind = "error"
    /\ Contains(lastToast.text, "Already booked")
    /\ Contains(lastToast.text, "Conflict")
    /\ inflight = {}
    /\ SelectedEntries # {}
    /\ \A i \in SelectedEntries : ~currentSlots[i].is_booked

\* C8: a failed bookSlot call leaves the dialog as it is: open on the same
\* slot if it was open, the fields as entered, and the submit control
\* enabled again, so that the form can be submitted anew.
C8_FailureKeepsDialog ==
    [][\A call \in inflight : \A failure \in BookFailures :
          BookFail(call, failure) =>
              /\ isBookingDialogOpen' = isBookingDialogOpen
              /\ selectedSlot' = selectedSlot
              /\ bookedByName' = bookedByName
              /\ bookedByEmail' = bookedByEmail
              /\ description' = description
              /\ ~isBookingLoading'
              /\ DialogShown => (SubmitEnabled' /\ (FormValid => FormValid'))]_vars

\* C8 witness: after a failure the dialog is open on the slot of the failed
\* call, the form is filled and the submit control is enabled.
C8_Witness ==
    /\ lastToast.kind = "error"
    /\ fetchState = "done"
    /\ error = NoError
    /\ DialogShown
    /\ SubmitEnabled
    /\ FormValid
    /\ ENABLED SubmitForm

(***************************************************************************)
(* C9, C10  the cache over a session                                       *)
(***************************************************************************)
\* C9: once the list is loaded, no step adds, removes or reorders a slot or
\* changes an id or a datetime_utc, and is_booked only goes from false to
\* true.
C9_BookedOnlyRises ==
    [][fetchState = "done" =>
          /\ Len(currentSlots') = Len(currentSlots)
          /\ \A i \in CacheIndices :
                /\ currentSlots'[i].id = currentSlots[i].id
                /\ currentSlots'[i].datetime_utc = currentSlots[i].datetime_utc
                /\ currentSlots[i].is_booked => currentSlots'[i].is_booked]_vars

\* C9 witness: a booking has succeeded in a loaded cache that now has every
\* slot booked, at least two of them.
C9_Witness ==
    /\ fetchState = "done"
    /\ lastToast.kind = "success"
    /\ Len(currentSlots) >= 2
    /\ Unbooked = {}

\* C10: no bookSlot call is issued for a slot whose cache entry is booked.
C10_NoCallForBookedSlot ==
    [][(SubmitForm /\ inflight' # inflight) =>
          \A i \in SelectedEntries : ~currentSlots[i].is_booked]_vars

\* C10 witness: a call is in flight after an earlier attempt has succeeded
\* and left a booked slot in the cache.
C10_Witness ==
    /\ inflight # {}
    /\ lastToast.kind = "success"
    /\ \E i \in CacheIndices : currentSlots[i].is_booked
    /\ \A call \in inflight : \A i \in CacheIndices :
          currentSlots[i].id = call.slotId => ~currentSlots[i].is_booked


(***************************************************************************)
(* C11 .. C13  calls in flight                                             *)
(***************************************************************************)
\* C11: at most one bookSlot call is in flight for any slot id, and a
\* submission never issues a call for a slot that has a call in flight.
C11_OneCallPerSlot ==
    /\ [](\A c1, c2 \in inflight : c1.slotId = c2.slotId => c1 = c2)
    /\ [][(SubmitForm /\ FormValid) =>
             \A call \in inflight : call.slotId # selectedSlot[1].id]_vars

\* C11 witness: a call is in flight while the dialog is open on its slot with
\* a valid form, and the submit control is disabled.
C11_Witness ==
    /\ \E call \in inflight : selectedSlot # NoSlot /\ call.slotId = selectedSlot[1].id
    /\ DialogShown
    /\ FormValid
    /\ ~SubmitEnabled
    /\ ~ENABLED SubmitForm


\* The slots of the chosen date, other than those with a call in flight.
OtherSlotsShown ==
    {slot \in Range(filteredSlots) :
        \A call \in inflight : call.slotId # slot.id}

\* C12 as stated: no lock spans slots, so while a call for one slot is in
\* flight a booking of another available slot can be started (and then
\* submitted, which puts calls for two slots in flight).
C12_NoLockAcrossSlots ==
    (inflight # {} /\ MainContentShown) =>
        \A slot \in OtherSlotsShown : ENABLED handleOpenBookingDialog(slot)

\* C12 amended: isBookingLoading locks every slot: while a call is in flight
\* the dialog stays on the slot of that call and no other call is in flight,
\* so calls for two different slots are never in flight together.
C12_OneSlotInFlight ==
    /\ \A c1, c2 \in inflight : c1.slotId = c2.slotId
    /\ \A call \in inflight :
          selectedSlot # NoSlot /\ selectedSlot[1].id = call.slotId

\* C12 witness: a call is in flight, the dialog is closed, and another slot
\* is shown as available, its button disabled.
C12_Witness ==
    /\ inflight # {}
    /\ MainContentShown
    /\ ~isBookingDialogOpen
    /\ OtherSlotsShown # {}
    /\ \A slot \in OtherSlotsShown : ~ENABLED handleOpenBookingDialog(slot)


\* C13 as stated: while a call is pending only the submit control is blocked:
\* the zone can be changed, an enabled date chosen, and a dialog opened on
\* any slot shown as available.
C13_OnlySubmitBlocked ==
    (isBookingLoading /\ inflight # {} /\ MainContentShown) =>
        /\ ~SubmitEnabled
        /\ \A tz \in commonTimezones \ {userTimezone} : ENABLED SetUserTimezone(tz)
        /\ \A date \in CalendarDays :
              ~CalendarDisabled(date) => ENABLED SelectDate(date)
        /\ \A slot \in Range(filteredSlots) : ENABLED handleOpenBookingDialog(slot)

\* C13 amended: while a call is pending the submit control and every slot
\* button are blocked; the dialog can be closed, and with the dialog closed
\* the zone can still be changed and an enabled date chosen.
C13_SubmitAndSlotsBlocked ==
    (isBookingLoading /\ inflight # {} /\ MainContentShown) =>
        /\ ~SubmitEnabled
        /\ ~ENABLED SubmitForm
        /\ \A slot \in Range(currentSlots) : ~ENABLED handleOpenBookingDialog(slot)
        /\ isBookingDialogOpen => ENABLED CloseDialog
        /\ ~isBookingDialogOpen =>
              /\ \A tz \in commonTimezones \ {userTimezone} :
                    ENABLED SetUserTimezone(tz)
              /\ \A date \in CalendarDays :
                    ~CalendarDisabled(date) => ENABLED SelectDate(date)

\* C13 witness: a call is pending, the user has closed the dialog and moved
\* to another zone, and a slot is shown whose button is disabled.
C13_Witness ==
    /\ isBookingLoading
    /\ inflight # {}
    /\ ~isBookingDialogOpen
    /\ userTimezone # sysTz
    /\ filteredSlots # <<>>
    /\ \E date \in CalendarDays : ~CalendarDisabled(date) /\ selectedDate # <<date>>


(***************************************************************************)
(* C14  a zone that is not recognized                                      *)
(***************************************************************************)
\* C14: when the detected zone is not a recognized zone the session falls
\* back to UTC (the selected zone is UTC once the mount effect has run), and
\* the computations of the page never fail.
C14_FallsBackToUTC ==
    /\ (sysTz \notin IanaZones /\ fetchState = "pending") => userTimezone = "UTC"
    /\ ~RenderThrows


(***************************************************************************)
(* C15  failure of the initial getSlots call                               *)
(***************************************************************************)
\* {error && <div role="alert">...}: the inline error panel.
ErrorPanelShown == error # NoError

\* C15: once getSlots has failed, loading has ended with the error set and
\* shown, the cache is empty, no date can be chosen and no booking started,
\* and getSlots is not called again.
C15_FetchFailure ==
    error # NoError =>
        /\ ~loading
        /\ ErrorPanelShown
        /\ error \in getSlotsErrors
        /\ currentSlots = <<>>
        /\ datesWithAvailableSlots = {}
        /\ \A date \in CalendarDays : ~ENABLED SelectDate(date)
        /\ selectedDate = NoDate
        /\ filteredSlots = <<>>
        /\ ~DialogShown
        /\ ~ENABLED SubmitForm
        /\ inflight = {}
        /\ fetchState = "done"
        /\ ~ENABLED Mount /\ ~ENABLED FetchOk /\ ~ENABLED FetchFail

\* C15 witness: the fetch has failed with a response that is not ok, the
\* failure has been notified, and the user has since changed the zone.
C15_Witness ==
    /\ error = <<"Error fetching slots: ", "Internal Server Error">>
    /\ lastToast.kind = "error"
    /\ MainContentShown
    /\ userTimezone # sysTz


(***************************************************************************)
(* C16  the times card: an empty result against no date chosen             *)
(***************************************************************************)
\* date-fns-tz formatInTimeZone(date, tz, 'MMM do, yyyy'): the calendar date
\* of the instant in zone tz.
formatInTimeZone(t, tz) ==
    <<2024, 4, 6 + ((t + tzOffset(tz, t)) \div HalfHoursPerDay)>>

\* Mutant: the note is shown whenever the list is empty.
TimesCard_noteWithoutDate ==
    [title |-> IF selectedDate # NoDate /\ userTimezone # ""
               THEN <<"Available Times on ">> \o
                        formatInTimeZone(selectedDate[1], userTimezone)
               ELSE <<"Select a Date to See Times">>,
     note |-> Len(filteredSlots) = 0,
     buttons |-> [i \in 1..Len(filteredSlots) |-> filteredSlots[i].id],
     emptyText |-> /\ Len(filteredSlots) = 0
                   /\ selectedDate # NoDate
                   /\ error = NoError,
     prompt |-> selectedDate = NoDate /\ error = NoError]

\* What the second card shows: its title, the note "No available slots for
\* this date in <zone>", one button for each slot of filteredSlots, the text
\* "No available times found for this date.", and the prompt "Please select
\* a date from the calendar."
TimesCard ==
    [title |-> IF selectedDate # NoDate /\ userTimezone # ""
               THEN <<"Available Times on ">> \o
                        formatInTimeZone(selectedDate[1], userTimezone)
               ELSE <<"Select a Date to See Times">>,
     note |-> selectedDate # NoDate /\ Len(filteredSlots) = 0,
     buttons |-> [i \in 1..Len(filteredSlots) |-> filteredSlots[i].id],
     emptyText |-> /\ Len(filteredSlots) = 0
                   /\ selectedDate # NoDate
                   /\ error = NoError,
     prompt |-> selectedDate = NoDate /\ error = NoError]

\* C16: whenever the card lists no slot, what it shows tells whether a date is
\* chosen: with a date the title names it and the note and the empty text are
\* shown, without a date the title and the prompt ask for one and neither the
\* note nor the empty text is shown.
C16_EmptyResultDistinct ==
    (MainContentShown /\ TimesCard.buttons = <<>>) =>
        /\ selectedDate # NoDate =>
              /\ TimesCard.title[1] = "Available Times on "
              /\ TimesCard.note
              /\ error = NoError => TimesCard.emptyText /\ ~TimesCard.prompt
        /\ selectedDate = NoDate =>
              /\ TimesCard.title[1] = "Select a Date to See Times"
              /\ ~TimesCard.note
              /\ ~TimesCard.emptyText
              /\ error = NoError => TimesCard.prompt

\* C16 witness: a booking has emptied the chosen date, which stays chosen.
C16_Witness ==
    /\ MainContentShown
    /\ selectedDate # NoDate
    /\ filteredSlots = <<>>
    /\ TimesCard.note
    /\ lastToast.kind = "success"
    /\ ~isBookingDialogOpen

\* The same after a change of zone: the chosen date has no slot in the new zone.
C16_WitnessZone ==
    /\ MainContentShown
    /\ selectedDate # NoDate
    /\ TimesCard.buttons = <<>>
    /\ \E i \in 1..Len(currentSlots) : ~currentSlots[i].is_booked


(***************************************************************************)
(* C17  opening the dialog for a slot                                      *)
(***************************************************************************)
\* C17: a click on the button of an available slot opens the dialog for that
\* slot alone, with name, email and description empty whatever they held, and
\* leaves the cache, the selected date and the zone as they were.
C17_OpenDialogFrame ==
    [][\A slot \in Range(currentSlots) :
          handleOpenBookingDialog(slot) =>
              /\ ~slot.is_booked
              /\ selectedSlot' = <<slot>>
              /\ isBookingDialogOpen'
              /\ DialogShown'
              /\ bookedByName' = "" /\ bookedByEmail' = "" /\ description' = ""
              /\ currentSlots' = currentSlots
              /\ selectedDate' = selectedDate
              /\ userTimezone' = userTimezone
              /\ inflight' = inflight]_vars

\* C17 witness: the dialog was reopened, with an empty form, for the slot whose
\* booking has just failed with the form filled in.
C17_Witness ==
    /\ DialogShown
    /\ lastToast.kind = "error"
    /\ error = NoError
    /\ bookedByName = "" /\ bookedByEmail = "" /\ description = ""
    /\ ~selectedSlot[1].is_booked
    /\ ~isBookingLoading


(***************************************************************************)
(* C18  after a successful booking                                         *)
(***************************************************************************)
\* No call is in flight and the page is past its initial fetch.
Idle == fetchState = "done" /\ inflight = {}

\* C18: when bookSlot resolves the dialog is closed, the success toast is
\* emitted, no call is in flight and the pending flag is down; and whenever
\* no call is in flight every slot shown can be chosen for a new attempt.
C18_SuccessReturnsToIdle ==
    /\ [][\A call \in inflight : \A returned \in BookResponses(call.slotId) :
             BookOk(call, returned) =>
                 /\ ~isBookingDialogOpen'
                 /\ ~DialogShown'
                 /\ lastToast' = [kind |-> "success",
                                  text |-> <<"Slot booked successfully!">>]
                 /\ inflight' = {}
                 /\ ~isBookingLoading'
                 /\ Idle']_vars
    /\ [](Idle => /\ ~isBookingLoading
                  /\ MainContentShown =>
                        \A slot \in Range(filteredSlots) :
                            ENABLED handleOpenBookingDialog(slot))

\* C18 witness: a booking has succeeded and another slot of the chosen date
\* can be selected.
C18_Witness ==
    /\ Idle
    /\ lastToast.kind = "success"
    /\ ~isBookingDialogOpen
    /\ \E i \in 1..Len(currentSlots) : currentSlots[i].is_booked
    /\ filteredSlots # <<>>
    /\ MainContentShown
    /\ \A slot \in Range(filteredSlots) : ENABLED handleOpenBookingDialog(slot)


(***************************************************************************)
(* C19  the calendar and the slot list agree                               *)
(***************************************************************************)
\* C19: for the cache and the zone of any state whose page renders, a day of
\* the calendar is enabled exactly when filteredSlots for that day holds a
\* slot.
C19_IndexAgreesWithFilter ==
    ~RenderThrows =>
        \A date \in CalendarDays :
            ~CalendarDisabled(date)
                <=> FilteredSlots(currentSlots, <<date>>, userTimezone) # <<>>

\* C19 witness: the last slot of the selected date has been booked; the date
\* is disabled, still selected, and its list is empty.
C19_Witness ==
    /\ selectedDate # NoDate
    /\ lastToast.kind = "success"
    /\ MainContentShown
    /\ CalendarDisabled(selectedDate[1])
    /\ filteredSlots = <<>>
    /\ \E i \in 1..Len(currentSlots) :
          /\ currentSlots[i].is_booked
          /\ isSameDay(zonedTime(currentSlots[i], userTimezone), selectedDate[1])

====
